---- MODULE Spec2Model ----
(***************************************************************************)
(* Model of pandas_decorators.py: the column checker _check_columns, the   *)
(* parameter locator _get_parameter and the three decorators df_in,        *)
(* df_out and df_log, each wrapper modelled statement by statement.        *)
(*                                                                         *)
(* Values.  A Python value is a record [tag, columns, dtypes]: tag is the  *)
(* name of its runtime type; for a DataFrame, columns is df.columns and    *)
(* dtypes is df.dtypes (same length), for everything else both are <<>>.   *)
(* DataFrames have pairwise distinct column names.                         *)
(*                                                                         *)
(* Column specs.  A ColumnsDef is a record [kind, names, dtypes]: kind is  *)
(* "list", "dict" or "None"; names are the list's elements or the dict's   *)
(* keys in insertion order; dtypes are the dict's values (<<>> for a       *)
(* list).  A list may repeat a name, the keys of a dict are distinct.      *)
(***************************************************************************)
EXTENDS Integers, Sequences, FiniteSets, TLC

VARIABLES op, func_params, name, columns, strict, level, include_dtypes, pc, args, kwargs, df, result, ret, trace, log, calls, raised

vars == <<op, func_params, name, columns, strict, level, include_dtypes, pc, args, kwargs, df, result, ret, trace, log, calls, raised>>

closure == <<op, func_params, name, columns, strict, level, include_dtypes>>

----------------------------------------------------------------------------
(* Bounds and input universes *)

MaxSpec == 2

MaxArgs == 2

CheckNames == {"a", "b", "extra"}

CallNames == {"a", "b"}

DTypes == {"int64", "float64"}

Levels == {10, 20}

FuncErrors == {"RuntimeError", "KeyError"}

Range(s) == {s[i] : i \in 1..Len(s)}

SeqsUpTo(S, n) == UNION {[1..k -> S] : k \in 0..n}

DistinctSeqs(S) == {s \in SeqsUpTo(S, Cardinality(S)) : Cardinality(Range(s)) = Len(s)}

NoneV == [tag |-> "NoneType", columns |-> <<>>, dtypes |-> <<>>]

IntV == [tag |-> "int", columns |-> <<>>, dtypes |-> <<>>]

DataFrame(cols, dts) == [tag |-> "DataFrame", columns |-> cols, dtypes |-> dts]

Frames(N) == UNION {{DataFrame(c, d) : d \in [1..Len(c) -> DTypes]} : c \in DistinctSeqs(N)}

ListSpec(ns) == [kind |-> "list", names |-> ns, dtypes |-> <<>>]

DictSpec(ns, dts) == [kind |-> "dict", names |-> ns, dtypes |-> dts]

NoneSpec == [kind |-> "None", names |-> <<>>, dtypes |-> <<>>]

DictKeys(N) == {s \in DistinctSeqs(N) : Len(s) <= MaxSpec}

ColumnsDefs(N) ==
    {NoneSpec}
    \cup {ListSpec(ns) : ns \in SeqsUpTo(N, MaxSpec)}
    \cup UNION {{DictSpec(ks, d) : d \in [1..Len(ks) -> DTypes]} : ks \in DictKeys(N)}

Scalars == {NoneV, IntV}

Values == Scalars \cup Frames(CallNames)

Samples == Scalars \cup {DataFrame(<<"a">>, <<"int64">>)}

NoneName == "None"

----------------------------------------------------------------------------
(* isinstance(v, pd.DataFrame) *)
isinstance_DataFrame(v) == v.tag = "DataFrame"

truthy_unless_None(columns_) == columns_.kind # "None"

(* bool(columns) as tested by "if columns:" *)
truthy(columns_) == columns_.kind # "None" /\ Len(columns_.names) > 0

(* len(columns) *)
len_columns(columns_) == Len(columns_.names)

(* column in df.columns *)
column_in(df_, column) == column \in Range(df_.columns)

(* df[column].dtype *)
column_dtype(df_, column) == df_.dtypes[CHOOSE i \in 1..Len(df_.columns) : df_.columns[i] = column]

dtype_eq_always(df_, column, dtype) == TRUE

(* df[column].dtype == dtype *)
dtype_eq(df_, column, dtype) == column_dtype(df_, column) = dtype

(* _describe_pd(df, include_dtypes_) *)
_describe_pd(df_, include_dtypes_) == [columns |-> df_.columns, with_dtypes |-> include_dtypes_, dtypes |-> IF include_dtypes_ THEN df_.dtypes ELSE <<>>]

----------------------------------------------------------------------------
(* Errors.  exc is the exception class ("" when nothing was raised); the   *)
(* other fields are the parts of the message the f-string interpolates.    *)

NoError == [exc |-> "", msg |-> "", column |-> "", got |-> <<>>, was |-> "", expected |-> "", extras |-> {}]

MissingColumn(df_, column) == [NoError EXCEPT !.exc = "AssertionError", !.msg = "missing from DataFrame", !.column = column, !.got = _describe_pd(df_, FALSE).columns]

WrongDtype(df_, column, dtype) == [NoError EXCEPT !.exc = "AssertionError", !.msg = "has wrong dtype", !.column = column, !.was = column_dtype(df_, column), !.expected = dtype]

UnexpectedColumns(df_, columns_) == [NoError EXCEPT !.exc = "AssertionError", !.msg = "DataFrame contained unexpected column(s)", !.extras = Range(df_.columns) \ Range(columns_.names)]

WrongParameterType(v) == [NoError EXCEPT !.exc = "AssertionError", !.msg = "Wrong parameter type", !.was = v.tag]

WrongReturnType(v) == [NoError EXCEPT !.exc = "AssertionError", !.msg = "Wrong return type", !.was = v.tag]

Raised(exc) == [NoError EXCEPT !.exc = exc]

----------------------------------------------------------------------------
(* _check_columns *)

RECURSIVE check_list(_, _, _)
(* lines 17-19: the loop over a list spec, from its i-th element on *)
check_list(df_, columns_, i) ==
    IF i > Len(columns_.names) THEN NoError
    ELSE IF ~column_in(df_, columns_.names[i]) THEN MissingColumn(df_, columns_.names[i])
    ELSE check_list(df_, columns_, i + 1)

RECURSIVE check_dict(_, _, _)
(* lines 20-25: the loop over a dict spec's items, from its i-th item on *)
check_dict(df_, columns_, i) ==
    IF i > Len(columns_.names) THEN NoError
    ELSE IF ~column_in(df_, columns_.names[i]) THEN MissingColumn(df_, columns_.names[i])
    ELSE IF ~dtype_eq(df_, columns_.names[i], columns_.dtypes[i])
         THEN WrongDtype(df_, columns_.names[i], columns_.dtypes[i])
    ELSE check_dict(df_, columns_, i + 1)

check_strict_at_most(df_, columns_) ==
    IF columns_.kind = "None" THEN Raised("TypeError")
    ELSE IF ~(Len(df_.columns) <= len_columns(columns_)) THEN UnexpectedColumns(df_, columns_)
    ELSE NoError

(* lines 27-29: the body of "if strict:"; len(None) raises TypeError *)
check_strict(df_, columns_) ==
    IF columns_.kind = "None" THEN Raised("TypeError")
    ELSE IF ~(Len(df_.columns) = len_columns(columns_)) THEN UnexpectedColumns(df_, columns_)
    ELSE NoError

_check_columns_strict_first(df_, columns_, strict_) ==
    LET s == IF strict_ THEN check_strict(df_, columns_) ELSE NoError
        l == IF columns_.kind = "list" THEN check_list(df_, columns_, 1) ELSE NoError
        d == IF columns_.kind = "dict" THEN check_dict(df_, columns_, 1) ELSE NoError
    IN  IF s.exc # "" THEN s ELSE IF l.exc # "" THEN l ELSE d

(* lines 16-29: the error _check_columns raises, NoError when it returns *)
_check_columns(df_, columns_, strict_) ==
    LET l == IF columns_.kind = "list" THEN check_list(df_, columns_, 1) ELSE NoError
        d == IF columns_.kind = "dict" THEN check_dict(df_, columns_, 1) ELSE NoError
        s == IF strict_ THEN check_strict(df_, columns_) ELSE NoError
    IN  IF l.exc # "" THEN l ELSE IF d.exc # "" THEN d ELSE s

----------------------------------------------------------------------------
(* _get_parameter *)

(* list.index(x), 0-based; -1 stands for the ValueError of a missing x *)
index(s, x) == IF x \in Range(s) THEN (CHOOSE i \in 1..Len(s) : s[i] = x /\ \A j \in 1..(i - 1) : s[j] # x) - 1 ELSE -1

Located(v) == [exc |-> "", value |-> v]

LocateFailed(exc) == [exc |-> exc, value |-> NoneV]

(* args[i] for a 0-based i >= 0 *)
getitem(args_, i) == IF i < Len(args_) THEN Located(args_[i + 1]) ELSE LocateFailed("IndexError")

(* "not name": None and the empty string are falsy *)
not_name(name_) == name_ = NoneName \/ name_ = ""

(* lines 57-68; func_params_ is list(inspect.signature(func).parameters.keys()) *)
_get_parameter(func_params_, name_, args_, kwargs_) ==
    IF not_name(name_)
    THEN IF Len(args_) = 0 THEN Located(NoneV) ELSE Located(args_[1])
    ELSE IF name_ \notin DOMAIN kwargs_
         THEN IF index(func_params_, name_) = -1 THEN LocateFailed("ValueError")
              ELSE getitem(args_, index(func_params_, name_))
         ELSE Located(kwargs_[name_])

(* _get_parameter(func, name, *args, **kwargs) as the wrappers call it    *)
(* (lines 87 and 136): a keyword argument of the wrapped call named like   *)
(* one of the parameters func and name of line 57 is passed twice, and the *)
(* call raises TypeError before the body of _get_parameter runs.           *)
call_get_parameter(func_params_, name_, args_, kwargs_) ==
    IF DOMAIN kwargs_ \cap {"func", "name"} # {} THEN LocateFailed("TypeError")
    ELSE _get_parameter(func_params_, name_, args_, kwargs_)

----------------------------------------------------------------------------
(* _log_input, _log_output: the log after the call, given the log before *)

LogRecord(level_, tagged, df_, include_dtypes_) == [level |-> level_, func_name |-> "func", tagged |-> tagged, described |-> _describe_pd(df_, include_dtypes_)]

(* lines 106-111 *)
_log_input(log_, level_, df_, include_dtypes_) ==
    IF isinstance_DataFrame(df_) THEN Append(log_, LogRecord(level_, "parameters", df_, include_dtypes_)) ELSE log_

(* lines 113-118 *)
_log_output(log_, level_, df_, include_dtypes_) ==
    IF isinstance_DataFrame(df_) THEN Append(log_, LogRecord(level_, "returned", df_, include_dtypes_)) ELSE log_

----------------------------------------------------------------------------
(* What the caller of the exercised callable observes *)

Returns(v) == [exc |-> "", err |-> NoError, value |-> v]

Raises(e) == [exc |-> e.exc, err |-> e, value |-> NoneV]

NoKwargs == [k \in {} |-> NoneV]

KwargsOver(K, V) == UNION {[D -> V] : D \in SUBSET K}

Signatures == {<<>>, <<"df">>, <<"x", "df">>, <<"df", "x">>, <<"df", "name">>}

LocateNames == {NoneName, "", "df", "x"}

LocateKwargs == {k \in KwargsOver({"df", "x", "name"}, Samples) : "name" \in DOMAIN k => k["name"] = IntV}

CallArgs == {<<>>} \cup {<<v>> : v \in Values} \cup {<<IntV, v>> : v \in Values}

CallKwargs == {k \in KwargsOver({"df", "name"}, Samples) : "name" \in DOMAIN k => k["name"] = IntV}

SampleArgs == {<<>>} \cup {<<v>> : v \in Samples} \cup {<<IntV, v>> : v \in Samples}

Invocation(args_, kwargs_) == [args |-> args_, kwargs |-> kwargs_]

----------------------------------------------------------------------------
(* Initial states: one exercised callable with its decoration-time values  *)

NoCall ==
    /\ args = <<>> /\ kwargs = NoKwargs /\ df = NoneV /\ result = NoneV
    /\ ret = Returns(NoneV) /\ trace = <<>> /\ log = <<>> /\ calls = <<>> /\ raised = ""

InitCheck ==
    /\ op = "_check_columns" /\ pc = "call"
    /\ func_params = <<"df">> /\ name = NoneName /\ level = 10 /\ include_dtypes = FALSE
    /\ columns \in ColumnsDefs(CheckNames) /\ strict \in BOOLEAN
    /\ args = <<>> /\ kwargs = NoKwargs /\ df \in Frames(CheckNames) /\ result = NoneV
    /\ ret = Returns(NoneV) /\ trace = <<>> /\ log = <<>> /\ calls = <<>> /\ raised = ""

InitLocate ==
    /\ op = "_get_parameter" /\ pc = "call"
    /\ func_params \in Signatures /\ name \in LocateNames
    /\ columns = NoneSpec /\ strict = FALSE /\ level = 10 /\ include_dtypes = FALSE
    /\ args \in SeqsUpTo(Samples, MaxArgs) /\ kwargs \in LocateKwargs
    /\ df = NoneV /\ result = NoneV
    /\ ret = Returns(NoneV) /\ trace = <<>> /\ log = <<>> /\ calls = <<>> /\ raised = ""

InitIn ==
    /\ op = "df_in" /\ pc = "idle"
    /\ func_params \in {<<"df">>, <<"x", "df">>} /\ name \in {NoneName, "df"}
    /\ columns \in ColumnsDefs(CallNames) /\ strict \in BOOLEAN
    /\ level = 10 /\ include_dtypes = FALSE
    /\ NoCall

InitOut ==
    /\ op = "df_out" /\ pc = "idle"
    /\ func_params = <<"df">> /\ name = NoneName
    /\ columns \in ColumnsDefs(CallNames) /\ strict \in BOOLEAN
    /\ level = 10 /\ include_dtypes = FALSE
    /\ NoCall

InitLog ==
    /\ op = "df_log" /\ pc = "idle"
    /\ func_params = <<"df", "name">> /\ name = NoneName /\ columns = NoneSpec /\ strict = FALSE
    /\ level \in Levels /\ include_dtypes \in BOOLEAN
    /\ NoCall

Init == InitCheck \/ InitLocate \/ InitIn \/ InitOut \/ InitLog

----------------------------------------------------------------------------
(* Direct calls of the two helpers *)

CheckColumns ==
    /\ op = "_check_columns" /\ pc = "call"
    /\ ret' = Raises(_check_columns(df, columns, strict))
    /\ trace' = Append(trace, "_check_columns")
    /\ pc' = "done"
    /\ UNCHANGED <<closure, args, kwargs, df, result, log, calls, raised>>

(* _get_parameter(func, name, *args, **kwargs) with the positional and     *)
(* keyword arguments of a call, passed the way lines 87 and 136 pass them  *)
GetParameter ==
    /\ op = "_get_parameter" /\ pc = "call"
    /\ LET r == call_get_parameter(func_params, name, args, kwargs)
       IN  ret' = IF r.exc # "" THEN Raises(Raised(r.exc)) ELSE Returns(r.value)
    /\ trace' = Append(trace, "_get_parameter")
    /\ pc' = "done"
    /\ UNCHANGED <<closure, args, kwargs, df, result, log, calls, raised>>

----------------------------------------------------------------------------
(* A call of a wrapper enters its first statement with fresh locals.  The  *)
(* wrappers keep nothing between calls, so a behaviour follows one call.   *)

Enter(a, k, first) ==
    /\ pc = "idle"
    /\ args' = a /\ kwargs' = k
    /\ df' = NoneV /\ result' = NoneV /\ ret' = Returns(NoneV)
    /\ trace' = <<>> /\ log' = <<>> /\ calls' = <<>> /\ raised' = ""
    /\ pc' = first
    /\ UNCHANGED closure

(* the wrapper of df_in, lines 86-93 *)

InCall == op = "df_in" /\ \E a \in CallArgs, k \in CallKwargs : Enter(a, k, "L87")

InGetParameter ==
    /\ op = "df_in" /\ pc = "L87"
    /\ LET r == call_get_parameter(func_params, name, args, kwargs)
       IN  IF r.exc # ""
           THEN ret' = Raises(Raised(r.exc)) /\ pc' = "done" /\ df' = df
           ELSE df' = r.value /\ pc' = "L88" /\ ret' = ret
    /\ trace' = Append(trace, "_get_parameter")
    /\ UNCHANGED <<closure, args, kwargs, result, log, calls, raised>>

InAssertType_skipped ==
    /\ op = "df_in" /\ pc = "L88"
    /\ pc' = "L91"
    /\ trace' = Append(trace, "isinstance")
    /\ UNCHANGED <<closure, args, kwargs, df, result, ret, log, calls, raised>>

InAssertType ==
    /\ op = "df_in" /\ pc = "L88"
    /\ IF isinstance_DataFrame(df)
       THEN pc' = "L91" /\ ret' = ret
       ELSE ret' = Raises(WrongParameterType(df)) /\ pc' = "done"
    /\ trace' = Append(trace, "isinstance")
    /\ UNCHANGED <<closure, args, kwargs, df, result, log, calls, raised>>

InCheckColumns ==
    /\ op = "df_in" /\ pc = "L91"
    /\ IF truthy(columns)
       THEN /\ trace' = Append(trace, "_check_columns")
            /\ LET e == _check_columns(df, columns, strict)
               IN  IF e.exc # ""
                   THEN ret' = Raises(e) /\ pc' = "done"
                   ELSE ret' = ret /\ pc' = "L93"
       ELSE trace' = trace /\ ret' = ret /\ pc' = "L93"
    /\ UNCHANGED <<closure, args, kwargs, df, result, log, calls, raised>>

InFunc ==
    /\ op = "df_in" /\ pc = "L93"
    /\ calls' = Append(calls, Invocation(args, kwargs))
    /\ trace' = Append(trace, "func")
    /\ \/ \E v \in Samples : result' = v /\ ret' = Returns(v) /\ raised' = raised
       \/ \E e \in FuncErrors : result' = result /\ ret' = Raises(Raised(e)) /\ raised' = e
    /\ pc' = "done"
    /\ UNCHANGED <<closure, args, kwargs, df, log>>

(* the wrapper of df_out, lines 46-51 *)

OutCall == op = "df_out" /\ \E a \in SampleArgs, k \in CallKwargs : Enter(a, k, "L47")

OutFunc_swallowing ==
    /\ op = "df_out" /\ pc = "L47"
    /\ calls' = Append(calls, Invocation(args, kwargs))
    /\ trace' = Append(trace, "func")
    /\ \/ \E v \in Values : result' = v /\ ret' = ret /\ raised' = raised /\ pc' = "L48"
       \/ \E e \in FuncErrors : result' = result /\ ret' = ret /\ raised' = e /\ pc' = "L48"
    /\ UNCHANGED <<closure, args, kwargs, df, log>>

OutFunc ==
    /\ op = "df_out" /\ pc = "L47"
    /\ calls' = Append(calls, Invocation(args, kwargs))
    /\ trace' = Append(trace, "func")
    /\ \/ \E v \in Values : result' = v /\ ret' = ret /\ raised' = raised /\ pc' = "L48"
       \/ \E e \in FuncErrors : result' = result /\ ret' = Raises(Raised(e)) /\ raised' = e /\ pc' = "done"
    /\ UNCHANGED <<closure, args, kwargs, df, log>>

OutAssertType ==
    /\ op = "df_out" /\ pc = "L48"
    /\ IF isinstance_DataFrame(result)
       THEN pc' = "L49" /\ ret' = ret
       ELSE ret' = Raises(WrongReturnType(result)) /\ pc' = "done"
    /\ trace' = Append(trace, "isinstance")
    /\ UNCHANGED <<closure, args, kwargs, df, result, log, calls, raised>>

OutCheckColumns ==
    /\ op = "df_out" /\ pc = "L49"
    /\ IF truthy(columns)
       THEN /\ trace' = Append(trace, "_check_columns")
            /\ LET e == _check_columns(result, columns, strict)
               IN  IF e.exc # ""
                   THEN ret' = Raises(e) /\ pc' = "done"
                   ELSE ret' = ret /\ pc' = "L51"
       ELSE trace' = trace /\ ret' = ret /\ pc' = "L51"
    /\ UNCHANGED <<closure, args, kwargs, df, result, log, calls, raised>>

OutReturn ==
    /\ op = "df_out" /\ pc = "L51"
    /\ ret' = Returns(result)
    /\ pc' = "done"
    /\ UNCHANGED <<closure, args, kwargs, df, result, trace, log, calls, raised>>

(* the wrapper of df_log, lines 135-138 *)

LogCall == op = "df_log" /\ \E a \in CallArgs, k \in CallKwargs : Enter(a, k, "L136")

LogInput ==
    /\ op = "df_log" /\ pc = "L136"
    /\ LET r == call_get_parameter(func_params, NoneName, args, kwargs)
       IN  IF r.exc # ""
           THEN /\ ret' = Raises(Raised(r.exc)) /\ pc' = "done"
                /\ df' = df /\ log' = log /\ trace' = Append(trace, "_get_parameter")
           ELSE /\ df' = r.value /\ ret' = ret /\ pc' = "L137"
                /\ log' = _log_input(log, level, r.value, include_dtypes)
                /\ trace' = Append(trace, "_get_parameter") \o <<"_log_input">>
    /\ UNCHANGED <<closure, args, kwargs, result, calls, raised>>

LogFunc ==
    /\ op = "df_log" /\ pc = "L137"
    /\ calls' = Append(calls, Invocation(args, kwargs))
    /\ trace' = Append(trace, "func")
    /\ \/ \E v \in Values : result' = v /\ ret' = ret /\ raised' = raised /\ pc' = "L138"
       \/ \E e \in FuncErrors : result' = result /\ ret' = Raises(Raised(e)) /\ raised' = e /\ pc' = "done"
    /\ UNCHANGED <<closure, args, kwargs, df, log>>

LogOutput_returning ==
    /\ op = "df_log" /\ pc = "L138"
    /\ log' = _log_output(log, level, result, include_dtypes)
    /\ trace' = Append(trace, "_log_output")
    /\ ret' = Returns(result)
    /\ pc' = "done"
    /\ UNCHANGED <<closure, args, kwargs, df, result, calls, raised>>

(* line 138, after which the wrapper falls off its end and returns None *)
LogOutput ==
    /\ op = "df_log" /\ pc = "L138"
    /\ log' = _log_output(log, level, result, include_dtypes)
    /\ trace' = Append(trace, "_log_output")
    /\ ret' = Returns(NoneV)
    /\ pc' = "done"
    /\ UNCHANGED <<closure, args, kwargs, df, result, calls, raised>>

Next ==
    \/ CheckColumns
    \/ GetParameter
    \/ InCall \/ InGetParameter \/ InAssertType \/ InCheckColumns \/ InFunc
    \/ OutCall \/ OutFunc \/ OutAssertType \/ OutCheckColumns \/ OutReturn
    \/ LogCall \/ LogInput \/ LogFunc \/ LogOutput

Spec == Init /\ [][Next]_vars

----------------------------------------------------------------------------
(* Vocabulary of the properties, stated without the operators above *)

Declared(columns_) == {columns_.names[i] : i \in 1..Len(columns_.names)}

Present(df_) == {df_.columns[i] : i \in 1..Len(df_.columns)}

ElementType(df_, c) == df_.dtypes[CHOOSE i \in 1..Len(df_.columns) : df_.columns[i] = c]

(* the i-th declared column is in the structure with the declared type *)
Satisfied(df_, columns_, i) ==
    /\ columns_.names[i] \in Present(df_)
    /\ columns_.kind = "dict" => ElementType(df_, columns_.names[i]) = columns_.dtypes[i]

NonStrictCondition(df_, columns_) == \A i \in 1..Len(columns_.names) : Satisfied(df_, columns_, i)

Conforms(df_, columns_, strict_) ==
    /\ NonStrictCondition(df_, columns_)
    /\ strict_ => Len(df_.columns) = Len(columns_.names)

ValidationMessages == {"missing from DataFrame", "has wrong dtype", "DataFrame contained unexpected column(s)"}

Checked == op = "_check_columns" /\ pc = "done"

Ran(step) == \E i \in 1..Len(trace) : trace[i] = step

----------------------------------------------------------------------------
(* C1: a non-strict _check_columns succeeds iff every declared name is a   *)
(* column of the structure and, for a mapping, that column's element type  *)
(* equals the declared one; otherwise it fails with a validation error.    *)
C1_NonStrictCheck ==
    (Checked /\ ~strict) =>
        /\ ret.exc = "" <=> NonStrictCondition(df, columns)
        /\ ret.exc # "" => (ret.exc = "AssertionError" /\ ret.err.msg \in ValidationMessages)

C1_Witness ==
    /\ Checked /\ ~strict /\ columns.kind = "dict" /\ Len(columns.names) = 2
    /\ Declared(columns) \subseteq Present(df)
    /\ ret.err.msg = "has wrong dtype"

(* C2: a strict _check_columns with a list or mapping spec succeeds iff    *)
(* the non-strict condition holds and the structure has as many columns as *)
(* the spec has entries.                                                   *)
C2_StrictCheck ==
    (Checked /\ strict /\ columns.kind # "None") =>
        (ret.exc = "" <=> (NonStrictCondition(df, columns) /\ Len(df.columns) = Len(columns.names)))

C2_Witness ==
    /\ Checked /\ strict /\ columns.kind = "list" /\ Len(columns.names) = 2
    /\ NonStrictCondition(df, columns) /\ Len(df.columns) = 3
    /\ ret.err.msg = "DataFrame contained unexpected column(s)"

(* C3: under strict=True with a non-empty spec (a list may repeat a name), *)
(* a df_in or df_out guard whose checked structure has a column the spec   *)
(* does not declare fails the call with the unexpected-column error.       *)
(* Stated for the structures that satisfy every declared column, where no  *)
(* other violation can be reported first.                                  *)
C3_StrictRejectsUndeclared ==
    /\ (/\ op = "df_in" /\ strict /\ truthy(columns) /\ Ran("_check_columns")
        /\ NonStrictCondition(df, columns) /\ Present(df) \ Declared(columns) # {})
          => (pc = "done" /\ calls = <<>> /\ ret.err.msg = "DataFrame contained unexpected column(s)")
    /\ (/\ op = "df_out" /\ strict /\ truthy(columns) /\ Ran("_check_columns")
        /\ NonStrictCondition(result, columns) /\ Present(result) \ Declared(columns) # {})
          => (pc = "done" /\ ret.err.msg = "DataFrame contained unexpected column(s)")

C3_Accepted ==
    /\ op = "df_in" /\ strict /\ columns = ListSpec(<<"a", "a">>)
    /\ Present(df) = {"a", "b"} /\ Len(calls) = 1 /\ ret.exc = ""

----------------------------------------------------------------------------
NonEmpty(columns_) == Len(columns_.names) > 0

IsFrame(v) == v.tag = "DataFrame"

Last(s) == s[Len(s)]

Count(s, x) == Cardinality({i \in 1..Len(s) : s[i] = x})

(* C4: a df_in wrapper runs the wrapped function at most once, with the    *)
(* original arguments, and only after the located parameter passed the     *)
(* type assertion and (for a non-empty spec) the column check; a call      *)
(* whose parameter is no DataFrame or fails the column check ends with     *)
(* that error and the body never ran.                                      *)
C4_BodyOnlyAfterChecks ==
    op = "df_in" =>
        /\ Len(calls) <= 1 /\ Count(trace, "func") = Len(calls)
        /\ calls # <<>> =>
              /\ IsFrame(df)
              /\ NonEmpty(columns) => Conforms(df, columns, strict)
              /\ calls[1] = [args |-> args, kwargs |-> kwargs]
              /\ Last(trace) = "func" /\ Ran("isinstance")
              /\ NonEmpty(columns) => Ran("_check_columns")
        /\ (pc = "done" /\ Ran("isinstance") /\ ~IsFrame(df)) =>
              (calls = <<>> /\ ret.exc = "AssertionError" /\ ret.err.msg = "Wrong parameter type")
        /\ (pc = "done" /\ IsFrame(df) /\ NonEmpty(columns) /\ ~Conforms(df, columns, strict)) =>
              (calls = <<>> /\ ret.exc = "AssertionError" /\ ret.err.msg \in ValidationMessages)
        /\ (pc = "done" /\ IsFrame(df) /\ (NonEmpty(columns) => Conforms(df, columns, strict))) =>
              Len(calls) = 1

C4_Witness ==
    /\ op = "df_in" /\ pc = "done" /\ name = "df" /\ "df" \in DOMAIN kwargs
    /\ df.tag = "int" /\ ret.err.msg = "Wrong parameter type" /\ calls = <<>>

(* C5: a df_out wrapper validates only after the wrapped call completed:   *)
(* when the wrapped function raises, no type assertion and no column check *)
(* is made and the caller gets that very error; when it returns a          *)
(* DataFrame that passes the checks, the caller gets that same value.      *)
C5_OutputGuardAfterCall ==
    op = "df_out" =>
        /\ trace # <<>> => (trace[1] = "func" /\ Count(trace, "func") = 1 /\ Len(calls) = 1)
        /\ raised # "" =>
              /\ pc = "done" /\ ret.exc = raised /\ ret.err.msg = ""
              /\ ~Ran("isinstance") /\ ~Ran("_check_columns")
        /\ (pc = "done" /\ raised = "" /\ IsFrame(result) /\ (NonEmpty(columns) => Conforms(result, columns, strict))) =>
              (ret.exc = "" /\ ret.value = result)
        /\ (pc = "done" /\ ret.exc = "") => (raised = "" /\ IsFrame(result) /\ ret.value = result)

C5_Witness ==
    /\ op = "df_out" /\ pc = "done" /\ strict /\ NonEmpty(columns)
    /\ raised = "KeyError" /\ ret.exc = "KeyError" /\ trace = <<"func">>

(* C6: for every keyword map kwargs, _get_parameter returns args[0] (None  *)
(* for no positional arguments) when name is unset, whatever kwargs holds; *)
(* kwargs[name] when name is a key of kwargs; otherwise the positional     *)
(* argument at name's index in the declared parameter order, raising       *)
(* IndexError when the caller passed too few positional arguments.         *)
C6_GetParameter ==
    (op = "_get_parameter" /\ pc = "done") =>
        /\ name \in {NoneName, ""} =>
              (ret.exc = "" /\ ret.value = IF Len(args) > 0 THEN args[1] ELSE NoneV)
        /\ (name \notin {NoneName, ""} /\ name \in DOMAIN kwargs) =>
              (ret.exc = "" /\ ret.value = kwargs[name])
        /\ (name \notin {NoneName, ""} /\ name \notin DOMAIN kwargs) =>
              \A i \in 1..Len(func_params) : func_params[i] = name =>
                  IF i <= Len(args) THEN ret.exc = "" /\ ret.value = args[i]
                  ELSE ret.exc = "IndexError"

C6_KeywordCollision ==
    /\ op = "_get_parameter" /\ pc = "done" /\ name = NoneName /\ func_params = <<"df", "name">>
    /\ Len(args) = 1 /\ IsFrame(args[1]) /\ DOMAIN kwargs = {"name"}
    /\ ret.exc = "TypeError"

(* C7: whenever the wrapped function returns normally, the df_log wrapper  *)
(* returns None to its caller, whatever the wrapped function returned.     *)
C7_LogDiscardsResult ==
    (op = "df_log" /\ pc = "done" /\ Len(calls) = 1 /\ raised = "") => (ret.exc = "" /\ ret.value = NoneV)

C7_Witness ==
    /\ op = "df_log" /\ pc = "done" /\ raised = "" /\ IsFrame(result) /\ Len(result.columns) = 2
    /\ ret.value = NoneV

Tags(log_) == [i \in 1..Len(log_) |-> log_[i].tagged]

ParameterTags == IF Len(args) > 0 /\ IsFrame(args[1]) THEN <<"parameters">> ELSE <<>>

ReturnedTags == IF IsFrame(result) THEN <<"returned">> ELSE <<>>

(* C8: a df_log wrapper emits one "parameters" record before the wrapped   *)
(* function is invoked iff the first positional argument is a DataFrame,   *)
(* then runs the function, then emits one "returned" record iff it         *)
(* returned a DataFrame; it fails only with the wrapped function's error,  *)
(* and then emits no "returned" record.                                    *)
C8_LogRecords ==
    op = "df_log" =>
        /\ pc \in {"idle", "L136"} => (log = <<>> /\ calls = <<>>)
        /\ pc = "L137" => (Tags(log) = ParameterTags /\ calls = <<>>)
        /\ pc = "L138" => (Tags(log) = ParameterTags /\ Len(calls) = 1 /\ raised = "")
        /\ (pc = "done" /\ raised = "") => (Tags(log) = ParameterTags \o ReturnedTags /\ Len(calls) = 1)
        /\ (pc = "done" /\ raised # "") => (Tags(log) = ParameterTags /\ Len(calls) = 1)
        /\ pc = "done" => ret.exc = raised
        /\ \A i \in 1..Len(log) :
              /\ log[i].level = level
              /\ log[i].tagged = "parameters" => log[i].described.columns = args[1].columns
              /\ log[i].tagged = "returned" => log[i].described.columns = result.columns

C8_FailsBeforeCall ==
    /\ op = "df_log" /\ pc = "done" /\ func_params = <<"df", "name">>
    /\ Len(args) = 1 /\ IsFrame(args[1]) /\ DOMAIN kwargs = {"name"}
    /\ ret.exc = "TypeError" /\ raised = "" /\ calls = <<>> /\ log = <<>>

(* C9 as claimed: an empty column spec (unset, empty list, empty mapping)  *)
(* raises no validation error for either strictness, through              *)
(* _check_columns and through the df_in and df_out guards.                 *)
C9_EmptySpecNeverFails ==
    (op \in {"_check_columns", "df_in", "df_out"} /\ ~NonEmpty(columns)) =>
        ret.err.msg \notin ValidationMessages

(* C9 as amended: through the df_in and df_out guards an empty column spec *)
(* makes no column check for either strictness; _check_columns called with *)
(* an empty spec raises a validation error exactly when strict is true,    *)
(* the spec is an empty list or mapping and the structure has a column     *)
(* (the unexpected-column error), and an unset spec under strict=True      *)
(* fails with the TypeError of len(None).                                  *)
C9_EmptySpecThroughGuards ==
    ~NonEmpty(columns) =>
        /\ op \in {"df_in", "df_out"} =>
              (~Ran("_check_columns") /\ ret.err.msg \notin ValidationMessages)
        /\ (op = "df_in" /\ pc = "done" /\ IsFrame(df)) => Len(calls) = 1
        /\ (op = "df_out" /\ pc = "done" /\ raised = "" /\ IsFrame(result)) => (ret.exc = "" /\ ret.value = result)
        /\ Checked =>
              /\ ret.err.msg \in ValidationMessages <=> (strict /\ columns.kind # "None" /\ Len(df.columns) > 0)
              /\ ret.err.msg \in ValidationMessages => ret.err.msg = "DataFrame contained unexpected column(s)"
              /\ ret.exc = "TypeError" <=> (strict /\ columns.kind = "None")

C9_Witness ==
    /\ op = "df_in" /\ pc = "done" /\ strict /\ columns = ListSpec(<<>>)
    /\ IsFrame(df) /\ Len(df.columns) = 2 /\ Len(calls) = 1 /\ ret.exc = ""

Unsatisfied(df_, columns_) == {i \in 1..Len(columns_.names) : ~Satisfied(df_, columns_, i)}

Min(I) == CHOOSE i \in I : \A j \in I : i <= j

(* C10: _check_columns reports the first violation in a fixed order: the   *)
(* declared columns in spec order, membership before element type for each *)
(* column, and the strict column count only after every declared column    *)
(* passed.                                                                 *)
C10_CheckOrder ==
    Checked =>
        IF Unsatisfied(df, columns) # {}
        THEN LET c == columns.names[Min(Unsatisfied(df, columns))]
             IN  /\ ret.exc = "AssertionError" /\ ret.err.column = c
                 /\ ret.err.msg = IF c \in Present(df) THEN "has wrong dtype" ELSE "missing from DataFrame"
        ELSE ret.err.msg \in {"", "DataFrame contained unexpected column(s)"}

C10_Witness ==
    /\ Checked /\ strict /\ columns.kind = "dict" /\ columns.names = <<"a", "b">>
    /\ Present(df) = {"a", "extra"} /\ ElementType(df, "a") # columns.dtypes[1]
    /\ ret.err.msg = "has wrong dtype" /\ ret.err.column = "a"

====
